---- MODULE Spec2Model ----
(***************************************************************************)
(* Model of the responsive-privacy core engine (packages/core): the        *)
(* attribute catalog, the config resolver, the visibility rule, the        *)
(* redaction resolver and the entry transformer.                           *)
(*                                                                         *)
(* JavaScript values are modelled as follows.  A plain object is a         *)
(* function whose DOMAIN is its set of own keys; an optional property is   *)
(* a key that may be missing from the DOMAIN.  A content record (whose key *)
(* order matters) is a sequence of [field, value] pairs with distinct      *)
(* fields.  Property names range over names that Object.prototype does not *)
(* define.  A template string is the record of its template and its        *)
(* interpolated parts.                                                     *)
(***************************************************************************)
EXTENDS Integers, Sequences, FiniteSets, TLC

VARIABLES
    config,          \* the operator's ResponsivePrivacyConfig (input)
    level,           \* the level argument handed to createContext (input)
    collectionName,  \* the collection the entry belongs to (input)
    data,            \* the raw content record (input)
    ctx,             \* the PrivacyContext built by createContext
    result,          \* the TransformResult returned by transformEntry
    visibility,      \* the last isAttributeVisible call and its answer
    console,         \* what console.warn was called with, in order
    pc,              \* position of the build script
    env,             \* process.env.PRIVACY_LEVEL: <<>> when unset, else <<text>>
    fallback,        \* the argument list of readPrivacyLevel: <<>> or <<n>> (input)
    reads,           \* what the calls of readPrivacyLevel returned, in order
    resolved,        \* what the calls of resolveConfig returned, in order
    entries,         \* the collections of the site, each with its entries (input)
    results,         \* the Map handed to buildSummary, in insertion order
    summary,         \* the lines buildSummary joined, in order
    levelArgument,   \* the optional level argument of a helper: <<>> or <<n>> (input)
    call             \* the last call of a template helper and what it returned

\* the state of the configuration reader and of the collection build
build ==
    <<env, fallback, reads, resolved, entries, results, summary>>

\* the state of the template helpers
helpers ==
    <<levelArgument, call>>

vars ==
    <<config, level, collectionName, data, ctx, result, visibility, console, pc,
      env, fallback, reads, resolved, entries, results, summary, levelArgument, call>>

\* no template helper has been called yet
NoCall ==
    [name |-> "none"]

\* the JavaScript value undefined
undefined ==
    "<undefined>"

\* types.ts: PrivacyLevel = 0 | 1 | 2 | 3 | 4
MaxLevel ==
    4

PrivacyLevel ==
    0..MaxLevel

-----------------------------------------------------------------------------
(* defaults.ts *)

DEFAULT_ATTRIBUTES ==
    ("ID-01" :> [name |-> "Full Name", category |-> "identity", risk |-> "high",
                 threshold |-> 2, redaction |-> "replace", redactedValue |-> "Staff Member"])
 @@ ("ID-02" :> [name |-> "Photo/Headshot", category |-> "identity", risk |-> "high",
                 threshold |-> 2, redaction |-> "omit"])
 @@ ("ID-03" :> [name |-> "Job Title/Role", category |-> "identity", risk |-> "medium",
                 threshold |-> 1])
 @@ ("ID-04" :> [name |-> "Biography/Background", category |-> "identity", risk |-> "medium",
                 threshold |-> 3, redaction |-> "omit"])
 @@ ("ID-05" :> [name |-> "Professional Credentials", category |-> "identity", risk |-> "low",
                 threshold |-> 3])
 @@ ("CV-01" :> [name |-> "Email Address", category |-> "contact", risk |-> "very-high",
                 threshold |-> 4, redaction |-> "replace",
                 redactedValue |-> "Contact the organization"])
 @@ ("CV-02" :> [name |-> "Phone Number", category |-> "contact", risk |-> "very-high",
                 threshold |-> 4, redaction |-> "omit"])
 @@ ("CV-03" :> [name |-> "Office Location/Address", category |-> "contact",
                 risk |-> "very-high", threshold |-> 4, redaction |-> "omit"])
 @@ ("CV-04" :> [name |-> "Social Media Links", category |-> "contact", risk |-> "medium",
                 threshold |-> 3, redaction |-> "omit"])
 @@ ("CV-05" :> [name |-> "Messaging Handles", category |-> "contact", risk |-> "high",
                 threshold |-> 4, redaction |-> "omit"])
 @@ ("OR-01" :> [name |-> "Department/Team", category |-> "organizational", risk |-> "low",
                 threshold |-> 1])
 @@ ("OR-02" :> [name |-> "Board Membership", category |-> "organizational",
                 risk |-> "medium", threshold |-> 3, complianceProtected |-> TRUE])
 @@ ("OR-03" :> [name |-> "Partner Organizations", category |-> "organizational",
                 risk |-> "medium", threshold |-> 3])
 @@ ("OR-04" :> [name |-> "Project Associations", category |-> "organizational",
                 risk |-> "low", threshold |-> 2])
 @@ ("OR-05" :> [name |-> "Advisory/Volunteer Status", category |-> "organizational",
                 risk |-> "low", threshold |-> 3])
 @@ ("AD-01" :> [name |-> "Work Schedule/Availability", category |-> "activity",
                 risk |-> "high", threshold |-> 4, redaction |-> "omit"])
 @@ ("AD-02" :> [name |-> "Event Participation", category |-> "activity", risk |-> "medium",
                 threshold |-> 3, redaction |-> "omit"])
 @@ ("AD-03" :> [name |-> "Publication Dates", category |-> "activity", risk |-> "low",
                 threshold |-> 2])
 @@ ("AD-04" :> [name |-> "Project Timelines", category |-> "activity", risk |-> "medium",
                 threshold |-> 3])
 @@ ("AD-05" :> [name |-> "Bylines/Authorship", category |-> "activity", risk |-> "medium",
                 threshold |-> 2, redaction |-> "replace",
                 redactedValue |-> "Organization Staff"])

DEFAULT_PRIVACY_LEVELS ==
    << [level |-> 0, name |-> "Complete Anonymity",
        description |-> "Active threat, immediate danger. No attributes visible."],
       [level |-> 1, name |-> "Role-Only Visibility",
        description |-> "Elevated threat environment. Only generic role and department visible."],
       [level |-> 2, name |-> "Professional Identity",
        description |-> "Moderate threat, maintaining credibility. Name, role, and project attribution visible."],
       [level |-> 3, name |-> "Public Professional",
        description |-> "Standard operations with security awareness. Full professional profile without direct contact."],
       [level |-> 4, name |-> "Full Transparency",
        description |-> "No perceived threat, maximum accessibility. All attributes visible."] >>

-----------------------------------------------------------------------------
(* config.ts *)

\* variant: the definitions of an id present on both sides are merged
\* property by property
spread_deep(a, b) ==
    [k \in (DOMAIN a) \cup (DOMAIN b) |->
        IF k \in DOMAIN b
        THEN IF k \in DOMAIN a
             THEN [q \in (DOMAIN a[k]) \cup (DOMAIN b[k]) |->
                      IF q \in DOMAIN b[k] THEN b[k][q] ELSE a[k][q]]
             ELSE b[k]
        ELSE a[k]]

\* { ...a, ...b }: the keys of both, b winning where both have the key
spread(a, b) ==
    [k \in (DOMAIN a) \cup (DOMAIN b) |-> IF k \in DOMAIN b THEN b[k] ELSE a[k]]

\* the object literal {}
emptyObject ==
    [k \in {} |-> undefined]

\* variant: the standard level definitions whatever the operator supplies
resolveConfig_defaultLevels(cfg) ==
    LET attributes ==
            spread(DEFAULT_ATTRIBUTES,
                   IF "attributes" \in DOMAIN cfg THEN cfg.attributes ELSE emptyObject)
    IN  [levels      |-> DEFAULT_PRIVACY_LEVELS,
         attributes  |-> attributes,
         collections |-> cfg.collections]

resolveConfig(cfg) ==
    LET attributes ==
            spread(DEFAULT_ATTRIBUTES,
                   IF "attributes" \in DOMAIN cfg THEN cfg.attributes ELSE emptyObject)
    IN  [levels      |-> IF "levels" \in DOMAIN cfg THEN cfg.levels
                                                    ELSE DEFAULT_PRIVACY_LEVELS,
         attributes  |-> attributes,
         collections |-> cfg.collections]

\* parseInt(string, 10) of the language: leading white space is skipped, a
\* sign is taken, then the longest prefix of decimal digits is the number;
\* what follows the digits is ignored, and no digit at all gives NaN
WhiteSpace ==
    {" ", "\t", "\n"}

DigitValue ==
    ("0" :> 0) @@ ("1" :> 1) @@ ("2" :> 2) @@ ("3" :> 3) @@ ("4" :> 4) @@
    ("5" :> 5) @@ ("6" :> 6) @@ ("7" :> 7) @@ ("8" :> 8) @@ ("9" :> 9)

RECURSIVE trimStart(_)
trimStart(string) ==
    IF string # <<>> /\ Head(string) \in WhiteSpace
    THEN trimStart(Tail(string))
    ELSE string

RECURSIVE digitPrefix(_)
digitPrefix(string) ==
    IF string # <<>> /\ Head(string) \in DOMAIN DigitValue
    THEN <<Head(string)>> \o digitPrefix(Tail(string))
    ELSE <<>>

RECURSIVE mathInt(_)
mathInt(digits) ==
    IF digits = <<>>
    THEN 0
    ELSE 10 * mathInt(SubSeq(digits, 1, Len(digits) - 1))
            + DigitValue[digits[Len(digits)]]

NaN ==
    [isNaN |-> TRUE]

parseInt(string) ==
    LET S        == trimStart(string)
        negative == S # <<>> /\ Head(S) = "-"
        unsigned == IF S # <<>> /\ Head(S) \in {"+", "-"} THEN Tail(S) ELSE S
        Z        == digitPrefix(unsigned)
    IN  IF Z = <<>>
        THEN NaN
        ELSE [isNaN |-> FALSE,
              value |-> IF negative THEN 0 - mathInt(Z) ELSE mathInt(Z)]

invalidLevelMessage(envVal, fallbackValue) ==
    [template |-> "[responsive-privacy] Invalid PRIVACY_LEVEL=\"${envVal}\". Must be 0-4. Falling back to ${fallback}.",
     envVal   |-> envVal,
     fallback |-> fallbackValue]

\* the default value of the parameter of readPrivacyLevel
DefaultFallback ==
    4

\* variant: the upper end of the range is not tested
readPrivacyLevel_noUpperBound(arguments, environment) ==
    LET fallbackValue == IF arguments = <<>> THEN DefaultFallback ELSE arguments[1]
    IN  IF environment = <<>> \/ environment[1] = <<>>
        THEN [returned |-> fallbackValue, console |-> <<>>]
        ELSE LET parsed == parseInt(environment[1])
             IN  IF parsed.isNaN \/ parsed.value < 0
                 THEN [returned |-> fallbackValue,
                       console  |-> <<invalidLevelMessage(environment[1], fallbackValue)>>]
                 ELSE [returned |-> parsed.value, console |-> <<>>]

\* arguments is the argument list (<<>> or <<fallback>>), environment is
\* process.env.PRIVACY_LEVEL (<<>> when unset, <<text>> when set); the
\* result is the returned level and what console.warn was called with
readPrivacyLevel(arguments, environment) ==
    LET fallbackValue == IF arguments = <<>> THEN DefaultFallback ELSE arguments[1]
    IN  IF environment = <<>> \/ environment[1] = <<>>
        THEN [returned |-> fallbackValue, console |-> <<>>]
        ELSE LET parsed == parseInt(environment[1])
             IN  IF parsed.isNaN \/ parsed.value < 0 \/ parsed.value > MaxLevel
                 THEN [returned |-> fallbackValue,
                       console  |-> <<invalidLevelMessage(environment[1], fallbackValue)>>]
                 ELSE [returned |-> parsed.value, console |-> <<>>]

\* createContext called with an explicit level argument
createContext(cfg, lvl) ==
    [currentLevel |-> lvl, config |-> resolveConfig(cfg)]

-----------------------------------------------------------------------------
(* transformer.ts *)

\* variant: an unknown attribute is hidden (fail-closed)
isAttributeVisible_failClosed(attributeId, currentLevel, attributes) ==
    IF attributeId \notin DOMAIN attributes
    THEN FALSE
    ELSE currentLevel >= attributes[attributeId].threshold

isAttributeVisible(attributeId, currentLevel, attributes) ==
    IF attributeId \notin DOMAIN attributes
    THEN TRUE
    ELSE currentLevel >= attributes[attributeId].threshold

\* the template string `[${attr.name} hidden]`
hiddenText(name) ==
    CASE name = "Full Name"                  -> "[Full Name hidden]"
      [] name = "Photo/Headshot"             -> "[Photo/Headshot hidden]"
      [] name = "Job Title/Role"             -> "[Job Title/Role hidden]"
      [] name = "Biography/Background"       -> "[Biography/Background hidden]"
      [] name = "Professional Credentials"   -> "[Professional Credentials hidden]"
      [] name = "Email Address"              -> "[Email Address hidden]"
      [] name = "Phone Number"               -> "[Phone Number hidden]"
      [] name = "Office Location/Address"    -> "[Office Location/Address hidden]"
      [] name = "Social Media Links"         -> "[Social Media Links hidden]"
      [] name = "Messaging Handles"          -> "[Messaging Handles hidden]"
      [] name = "Department/Team"            -> "[Department/Team hidden]"
      [] name = "Board Membership"           -> "[Board Membership hidden]"
      [] name = "Partner Organizations"      -> "[Partner Organizations hidden]"
      [] name = "Project Associations"       -> "[Project Associations hidden]"
      [] name = "Advisory/Volunteer Status"  -> "[Advisory/Volunteer Status hidden]"
      [] name = "Work Schedule/Availability" -> "[Work Schedule/Availability hidden]"
      [] name = "Event Participation"        -> "[Event Participation hidden]"
      [] name = "Publication Dates"          -> "[Publication Dates hidden]"
      [] name = "Project Timelines"          -> "[Project Timelines hidden]"
      [] name = "Bylines/Authorship"         -> "[Bylines/Authorship hidden]"
      [] name = "Custom"                     -> "[Custom hidden]"

\* attr.redaction ?? 'omit'
strategyOf(attr) ==
    IF "redaction" \in DOMAIN attr THEN attr.redaction ELSE "omit"

\* variant: `||` in place of `??`, so an empty redactedValue counts as missing
getRedactedValue_falsy(attr) ==
    LET strategy == strategyOf(attr)
    IN  IF strategy = "omit" THEN undefined
        ELSE IF strategy = "replace"
             THEN IF "redactedValue" \in DOMAIN attr /\ attr.redactedValue # ""
                  THEN attr.redactedValue
                  ELSE hiddenText(attr.name)
             ELSE undefined

getRedactedValue(attr) ==
    LET strategy == strategyOf(attr)
    IN  IF strategy = "omit" THEN undefined
        ELSE IF strategy = "replace"
             THEN IF "redactedValue" \in DOMAIN attr THEN attr.redactedValue
                                                     ELSE hiddenText(attr.name)
             ELSE undefined

\* the console.warn of an attribute id that is missing from the definitions
unknownAttributeMessage(field, attributeId) ==
    [template |-> "Field mapped to unknown attribute. Passing through.",
     field |-> field, attributeId |-> attributeId]

\* the compliance warning pushed on warnings
complianceMessage(attr, attributeId, currentLevel) ==
    [template |-> "Compliance-protected attribute would be hidden. Requires legal review before removal.",
     name |-> attr.name, attributeId |-> attributeId,
     level |-> currentLevel, threshold |-> attr.threshold]

\* variant: a warning already on the list is not pushed again
warnCompliance_dedup(acc, attributeId, attr, currentLevel) ==
    IF /\ "complianceProtected" \in DOMAIN attr /\ attr.complianceProtected
       /\ \A k \in DOMAIN acc.warnings :
             acc.warnings[k] # complianceMessage(attr, attributeId, currentLevel)
    THEN [acc EXCEPT !.warnings =
                Append(@, complianceMessage(attr, attributeId, currentLevel))]
    ELSE acc

\* if (attr.complianceProtected) warnings.push(...)
warnCompliance(acc, attributeId, attr, currentLevel) ==
    IF "complianceProtected" \in DOMAIN attr /\ attr.complianceProtected
    THEN [acc EXCEPT !.warnings =
                Append(@, complianceMessage(attr, attributeId, currentLevel))]
    ELSE acc

\* the redaction of a hidden field: replace or omit
\* variant: the FieldResult of a replaced field does not name the strategy
redact_unmarked(acc, field, attributeId, attr) ==
    LET redactedValue == getRedactedValue(attr)
        strategy      == strategyOf(attr)
    IN  IF strategy = "replace" /\ redactedValue # undefined
        THEN [acc EXCEPT
                !.result = Append(@, [field |-> field, value |-> redactedValue]),
                !.fields = Append(@, [field |-> field, attributeId |-> attributeId,
                                      visible |-> FALSE, value |-> redactedValue])]
        ELSE [acc EXCEPT
                !.fields = Append(@, [field |-> field, attributeId |-> attributeId,
                                      visible |-> FALSE, value |-> undefined,
                                      redactionApplied |-> "omit"])]

redact(acc, field, attributeId, attr) ==
    LET redactedValue == getRedactedValue(attr)
        strategy      == strategyOf(attr)
    IN  IF strategy = "replace" /\ redactedValue # undefined
        THEN [acc EXCEPT
                !.result = Append(@, [field |-> field, value |-> redactedValue]),
                !.fields = Append(@, [field |-> field, attributeId |-> attributeId,
                                      visible |-> FALSE, value |-> redactedValue,
                                      redactionApplied |-> "replace"])]
        ELSE [acc EXCEPT
                !.fields = Append(@, [field |-> field, attributeId |-> attributeId,
                                      visible |-> FALSE, value |-> undefined,
                                      redactionApplied |-> "omit"])]

\* variant: at level 0 every hidden field is omitted, whatever its strategy
hideField_omitAtZero(acc, field, attributeId, attr, currentLevel) ==
    LET warned   == warnCompliance(acc, attributeId, attr, currentLevel)
        redacted == IF currentLevel = 0
                    THEN [warned EXCEPT
                            !.fields = Append(@, [field |-> field,
                                                  attributeId |-> attributeId,
                                                  visible |-> FALSE,
                                                  value |-> undefined,
                                                  redactionApplied |-> "omit"])]
                    ELSE redact(warned, field, attributeId, attr)
    IN  [redacted EXCEPT !.hiddenFields = Append(@, field)]

\* variant: hiddenFields.push(field) forgotten
hideField_noPush(acc, field, attributeId, attr, currentLevel) ==
    LET warned == warnCompliance(acc, attributeId, attr, currentLevel)
    IN  redact(warned, field, attributeId, attr)

\* the else branch of the visibility test: warn, redact, hiddenFields.push(field)
hideField(acc, field, attributeId, attr, currentLevel) ==
    LET warned   == warnCompliance(acc, attributeId, attr, currentLevel)
        redacted == redact(warned, field, attributeId, attr)
    IN  [redacted EXCEPT !.hiddenFields = Append(@, field)]

\* variant: off by one, an attribute shows one level below its threshold
thresholdReached_offByOne(currentLevel, attr) ==
    currentLevel + 1 >= attr.threshold

\* variant: the comparison the wrong way round
thresholdReached_reversed(currentLevel, attr) ==
    currentLevel <= attr.threshold

\* variant: strict comparison
thresholdReached_strict(currentLevel, attr) ==
    currentLevel > attr.threshold

\* const visible = ctx.currentLevel >= attr.threshold
thresholdReached(currentLevel, attr) ==
    currentLevel >= attr.threshold

\* !attributeId, for attributeId = collectionConfig.fields[field]
unmapped(field, collectionConfig) ==
    \/ field \notin DOMAIN collectionConfig.fields
    \/ collectionConfig.fields[field] = ""

\* variant: result[field] = value forgotten
passUnmapped_notCopied(acc, field, value) ==
    [acc EXCEPT
        !.fields = Append(@, [field |-> field, attributeId |-> "",
                              visible |-> TRUE, value |-> value])]

\* if (!attributeId) { result[field] = value; fields.push(...); continue; }
passUnmapped(acc, field, value) ==
    [acc EXCEPT
        !.result = Append(@, [field |-> field, value |-> value]),
        !.fields = Append(@, [field |-> field, attributeId |-> "",
                              visible |-> TRUE, value |-> value])]

\* variant: no console.warn
passUnknown_silent(acc, field, attributeId, value) ==
    [acc EXCEPT
        !.result  = Append(@, [field |-> field, value |-> value]),
        !.fields  = Append(@, [field |-> field, attributeId |-> attributeId,
                               visible |-> TRUE, value |-> value])]

\* if (!attr) { console.warn(...); result[field] = value; fields.push(...); continue; }
passUnknown(acc, field, attributeId, value) ==
    [acc EXCEPT
        !.console = Append(@, unknownAttributeMessage(field, attributeId)),
        !.result  = Append(@, [field |-> field, value |-> value]),
        !.fields  = Append(@, [field |-> field, attributeId |-> attributeId,
                               visible |-> TRUE, value |-> value])]

\* variant: the key of a visible field is put in front of the keys so far
passVisible_front(acc, field, attributeId, value) ==
    [acc EXCEPT
        !.result = <<[field |-> field, value |-> value]>> \o @,
        !.fields = Append(@, [field |-> field, attributeId |-> attributeId,
                              visible |-> TRUE, value |-> value])]

\* if (visible) { result[field] = value; fields.push(...); }
passVisible(acc, field, attributeId, value) ==
    [acc EXCEPT
        !.result = Append(@, [field |-> field, value |-> value]),
        !.fields = Append(@, [field |-> field, attributeId |-> attributeId,
                              visible |-> TRUE, value |-> value])]

\* one iteration of the loop over Object.entries(data)
applyPrivacyField(acc, field, value, collectionConfig, context) ==
    IF unmapped(field, collectionConfig)
    THEN passUnmapped(acc, field, value)
    ELSE LET attributeId == collectionConfig.fields[field]
         IN  IF attributeId \notin DOMAIN context.config.attributes
             THEN passUnknown(acc, field, attributeId, value)
             ELSE LET attr == context.config.attributes[attributeId]
                  IN  IF thresholdReached(context.currentLevel, attr)
                      THEN passVisible(acc, field, attributeId, value)
                      ELSE hideField(acc, field, attributeId, attr, context.currentLevel)

RECURSIVE applyPrivacyFrom(_, _, _, _, _)
applyPrivacyFrom(acc, i, record, collectionConfig, context) ==
    IF i > Len(record)
    THEN acc
    ELSE applyPrivacyFrom(
            applyPrivacyField(acc, record[i].field, record[i].value,
                              collectionConfig, context),
            i + 1, record, collectionConfig, context)

\* returns the TransformResult together with the console output of the call
applyPrivacy(record, collectionConfig, context) ==
    LET acc == applyPrivacyFrom(
                  [result |-> <<>>, fields |-> <<>>, hiddenFields |-> <<>>,
                   warnings |-> <<>>, console |-> <<>>],
                  1, record, collectionConfig, context)
    IN  [data         |-> acc.result,
         fields       |-> acc.fields,
         hiddenFields |-> acc.hiddenFields,
         warnings     |-> acc.warnings,
         console      |-> acc.console]

\* variant: `data: {}` in place of `data: { ...data }`
transformEntry_emptyData(collection, record, context) ==
    IF collection \notin DOMAIN context.config.collections
    THEN [data         |-> <<>>,
          fields       |-> [i \in 1..Len(record) |->
                              [field |-> record[i].field, attributeId |-> "",
                               visible |-> TRUE, value |-> record[i].value]],
          hiddenFields |-> <<>>,
          warnings     |-> <<>>,
          console      |-> <<>>]
    ELSE applyPrivacy(record, context.config.collections[collection], context)

transformEntry(collection, record, context) ==
    IF collection \notin DOMAIN context.config.collections
    THEN [data         |-> record,
          fields       |-> [i \in 1..Len(record) |->
                              [field |-> record[i].field, attributeId |-> "",
                               visible |-> TRUE, value |-> record[i].value]],
          hiddenFields |-> <<>>,
          warnings     |-> <<>>,
          console      |-> <<>>]
    ELSE applyPrivacy(record, context.config.collections[collection], context)

\* the concatenation of a sequence of sequences, in order
RECURSIVE flat(_)
flat(seqs) ==
    IF seqs = <<>> THEN <<>> ELSE Head(seqs) \o flat(Tail(seqs))

\* variant: hiddenFields is one array shared by the entries of the call
transformCollection_shared(collection, records, context) ==
    LET each == [i \in 1..Len(records) |-> transformEntry(collection, records[i], context)]
    IN  [results |-> [i \in 1..Len(records) |->
                        [data         |-> each[i].data,
                         fields       |-> each[i].fields,
                         hiddenFields |-> flat([j \in 1..i |-> each[j].hiddenFields]),
                         warnings     |-> each[i].warnings]],
         console |-> flat([i \in 1..Len(records) |-> each[i].console])]

\* entries.map(...): the TransformResult of every entry in order, and what
\* the calls handed to console.warn
transformCollection(collection, records, context) ==
    LET each == [i \in 1..Len(records) |-> transformEntry(collection, records[i], context)]
    IN  [results |-> [i \in 1..Len(records) |->
                        [data         |-> each[i].data,
                         fields       |-> each[i].fields,
                         hiddenFields |-> each[i].hiddenFields,
                         warnings     |-> each[i].warnings]],
         console |-> flat([i \in 1..Len(records) |-> each[i].console])]

\* variant: the definition at position currentLevel of the list
findLevel_byIndex(levels, currentLevel) ==
    IF currentLevel + 1 \in DOMAIN levels
    THEN <<levels[currentLevel + 1]>>
    ELSE <<>>

\* levels.find(l => l.level === currentLevel): <<>> for undefined, else the
\* first definition of the list with that level
findLevel(levels, currentLevel) ==
    LET matches == {i \in DOMAIN levels : levels[i].level = currentLevel}
    IN  IF matches = {}
        THEN <<>>
        ELSE <<levels[CHOOSE i \in matches : \A j \in matches : i <= j]>>

\* the pictographs of the line templates are left out of the templates below

\* the three lines a summary starts with
headerLines(context) ==
    LET found == findLevel(context.config.levels, context.currentLevel)
    IN  << [template |-> "\nResponsive Privacy Build Summary"],
           [template     |-> "   Level: ${ctx.currentLevel} - ${level?.name ?? 'Unknown'}",
            currentLevel |-> context.currentLevel,
            name         |-> IF found = <<>> THEN "Unknown" ELSE found[1].name],
           [template    |-> "   ${level?.description ?? ''}\n",
            description |-> IF found = <<>> THEN "" ELSE found[1].description] >>

\* reduce((sum, r) => sum + r.hiddenFields.length, 0)
RECURSIVE collectionHidden(_)
collectionHidden(transformResults) ==
    IF transformResults = <<>>
    THEN 0
    ELSE collectionHidden(SubSeq(transformResults, 1, Len(transformResults) - 1))
            + Len(transformResults[Len(transformResults)].hiddenFields)

\* reduce((sum, r) => sum + r.warnings.length, 0)
RECURSIVE collectionWarnings(_)
collectionWarnings(transformResults) ==
    IF transformResults = <<>>
    THEN 0
    ELSE collectionWarnings(SubSeq(transformResults, 1, Len(transformResults) - 1))
            + Len(transformResults[Len(transformResults)].warnings)

\* variant: the names are listed without the Set
setOf_everyOccurrence(names) ==
    names

\* [...new Set(names)]: every name once, in the order of first occurrence
setOf(names) ==
    LET first == SelectSeq([i \in DOMAIN names |-> i],
                           LAMBDA i : \A j \in 1..(i - 1) : names[j] # names[i])
    IN  [k \in DOMAIN first |-> names[first[k]]]

\* variant: the warnings are listed inside the test on collectionHidden
collectionLines_warningsInside(collection, transformResults) ==
    IF collectionHidden(transformResults) > 0
    THEN << [template   |-> "   ${collection}: ${transformResults.length} entries, ${collectionHidden} fields hidden",
             collection |-> collection,
             entries    |-> Len(transformResults),
             hidden     |-> collectionHidden(transformResults)],
            [template         |-> "      Hidden: ${[...hiddenFieldNames].join(', ')}",
             hiddenFieldNames |->
                 setOf(flat([k \in DOMAIN transformResults |->
                               transformResults[k].hiddenFields]))] >>
         \o [i \in DOMAIN flat([k \in DOMAIN transformResults |->
                                   transformResults[k].warnings]) |->
                [template |-> "   Warning:  ${w}",
                 w |-> flat([k \in DOMAIN transformResults |->
                               transformResults[k].warnings])[i]]]
    ELSE <<>>

\* the lines one iteration of the loop over the Map pushes
collectionLines(collection, transformResults) ==
    LET hiddenFieldNames ==
            setOf(flat([k \in DOMAIN transformResults |-> transformResults[k].hiddenFields]))
        warnings ==
            flat([k \in DOMAIN transformResults |-> transformResults[k].warnings])
    IN  (IF collectionHidden(transformResults) > 0
         THEN << [template   |-> "   ${collection}: ${transformResults.length} entries, ${collectionHidden} fields hidden",
                  collection |-> collection,
                  entries    |-> Len(transformResults),
                  hidden     |-> collectionHidden(transformResults)],
                 [template         |-> "      Hidden: ${[...hiddenFieldNames].join(', ')}",
                  hiddenFieldNames |-> hiddenFieldNames] >>
         ELSE <<>>)
        \o [i \in DOMAIN warnings |->
               [template |-> "   Warning:  ${w}", w |-> warnings[i]]]

\* the sum of a sequence of numbers
RECURSIVE total(_)
total(numbers) ==
    IF numbers = <<>> THEN 0 ELSE Head(numbers) + total(Tail(numbers))

\* resultsMap is the Map in insertion order, a sequence of [collection,
\* results]; the summary is the sequence of the lines that are joined
buildSummary(resultsMap, context) ==
    headerLines(context)
    \o flat([k \in DOMAIN resultsMap |->
                collectionLines(resultsMap[k].collection, resultsMap[k].results)])
    \o << [template |-> ""],
          [template      |-> "   Total: ${totalHidden} fields hidden, ${totalWarnings} compliance warnings",
           totalHidden   |-> total([k \in DOMAIN resultsMap |->
                                      collectionHidden(resultsMap[k].results)]),
           totalWarnings |-> total([k \in DOMAIN resultsMap |->
                                      collectionWarnings(resultsMap[k].results)])],
          [template |-> ""] >>

-----------------------------------------------------------------------------
(* config.ts and the template helpers (astro/helpers): the optional level  *)
(* argument.  levelArg is <<>> for an argument not given and <<n>> for the *)
(* level n; a helper returns its value, what console.warn was called with *)
(* and the context it worked with.                                        *)

\* variant: `level || readPrivacyLevel()`
levelOrRead_falsy(levelArg, environment) ==
    IF levelArg = <<>> \/ levelArg[1] = 0
    THEN readPrivacyLevel(<<>>, environment)
    ELSE [returned |-> levelArg[1], console |-> <<>>]

\* level ?? readPrivacyLevel()
levelOrRead(levelArg, environment) ==
    IF levelArg = <<>>
    THEN readPrivacyLevel(<<>>, environment)
    ELSE [returned |-> levelArg[1], console |-> <<>>]

\* createContext(config, level) with its optional level, and
\* createContext(config, level ?? readPrivacyLevel()) of the helpers
contextFor(cfg, levelArg, environment) ==
    LET l == levelOrRead(levelArg, environment)
    IN  [ctx |-> createContext(cfg, l.returned), console |-> l.console]

\* { ...entry, data: result.data, _privacy: result }
filtered(entry, r) ==
    spread(entry,
           ("data" :> r.data)
           @@ ("_privacy" :> [data |-> r.data, fields |-> r.fields,
                              hiddenFields |-> r.hiddenFields,
                              warnings |-> r.warnings]))

filterEntry(collection, entry, cfg, levelArg, environment) ==
    LET c == contextFor(cfg, levelArg, environment)
        r == transformEntry(collection, entry["data"], c.ctx)
    IN  [returned |-> filtered(entry, r),
         console  |-> c.console \o r.console,
         ctx      |-> c.ctx]

filterCollection(collection, items, cfg, levelArg, environment) ==
    LET c    == contextFor(cfg, levelArg, environment)
        each == [i \in 1..Len(items) |-> transformEntry(collection, items[i]["data"], c.ctx)]
    IN  [returned |-> [i \in 1..Len(items) |-> filtered(items[i], each[i])],
         console  |-> c.console \o flat([i \in 1..Len(items) |-> each[i].console]),
         ctx      |-> c.ctx]

shouldShow(collection, fieldName, cfg, levelArg, environment) ==
    LET c == contextFor(cfg, levelArg, environment)
        answer ==
            IF collection \notin DOMAIN c.ctx.config.collections
            THEN TRUE
            ELSE LET fields == c.ctx.config.collections[collection].fields
                 IN  IF fieldName \notin DOMAIN fields \/ fields[fieldName] = ""
                     THEN TRUE
                     ELSE IF fields[fieldName] \notin DOMAIN c.ctx.config.attributes
                          THEN TRUE
                          ELSE c.ctx.currentLevel >=
                                   c.ctx.config.attributes[fields[fieldName]].threshold
    IN  [returned |-> answer, console |-> c.console, ctx |-> c.ctx]

getPrivacyStatus(cfg, levelArg, environment) ==
    LET c        == contextFor(cfg, levelArg, environment)
        levelDef == findLevel(c.ctx.config.levels, c.ctx.currentLevel)
    IN  [returned |-> [level       |-> c.ctx.currentLevel,
                       name        |-> IF levelDef = <<>> THEN "Unknown"
                                                          ELSE levelDef[1].name,
                       description |-> IF levelDef = <<>> THEN ""
                                                          ELSE levelDef[1].description,
                       isReduced   |-> c.ctx.currentLevel < 4],
         console  |-> c.console,
         ctx      |-> c.ctx]

-----------------------------------------------------------------------------
(* Inputs: operator configurations, levels and content records *)

\* the most fields a content record has
MaxFields ==
    2

FieldNames ==
    {"bio", "email", "slug"}

FieldValues(f) ==
    CASE f = "bio"   -> {"Jane has 15 years of experience."}
      [] f = "email" -> {"jane@example.org", "Contact the organization"}
      [] f = "slug"  -> {"jane-smith"}

Entries ==
    UNION {{[field |-> f, value |-> v] : v \in FieldValues(f)} : f \in FieldNames}

\* content records: ordered, with distinct keys
Records ==
    UNION {{r \in [1..n -> Entries] :
               \A i, j \in 1..n : i # j => r[i].field # r[j].field} :
           n \in 0..MaxFields}

\* the optional properties of an operator-defined attribute
RedactionParts ==
    {emptyObject,
     [redaction |-> "omit"],
     [redaction |-> "replace"],
     [redaction |-> "replace", redactedValue |-> ""],
     [redaction |-> "replace", redactedValue |-> "Staff Member"],
     [redactedValue |-> "Staff Member"],
     [redaction |-> "omit", redactedValue |-> "Staff Member"]}

ComplianceParts ==
    {emptyObject, [complianceProtected |-> TRUE]}

CustomDefinitions ==
    {[name |-> "Custom", category |-> "identity", risk |-> "high", threshold |-> t]
        @@ r @@ c :
     t \in PrivacyLevel, r \in RedactionParts, c \in ComplianceParts}

\* a FieldMapping of the team collection: undefined stands for "no entry"
mapping(bioId, emailId) ==
    (IF bioId = undefined THEN emptyObject ELSE "bio" :> bioId)
    @@ (IF emailId = undefined THEN emptyObject ELSE "email" :> emailId)

teamConfig(fields) ==
    [collections |-> ("team" :> [fields |-> fields])]

\* one operator-defined attribute, in every shape, on one or two fields
CustomAttributeConfigs ==
    {teamConfig(mapping("X-01", e)) @@ [attributes |-> ("X-01" :> d)] :
     e \in {undefined, "X-01", "CV-01"}, d \in CustomDefinitions}

\* every kind of mapping entry, over the defaults with or without an
\* attribute whose id is the empty string
MappingConfigs ==
    {teamConfig(mapping(b, e)) @@ a :
     b \in {undefined, "", "ID-04", "OR-02", "UNKNOWN-99"},
     e \in {undefined, "", "CV-01", "OR-02", "UNKNOWN-99"},
     a \in {emptyObject,
            [attributes |-> ("" :> [name |-> "Custom", category |-> "contact",
                                    risk |-> "high", threshold |-> 3,
                                    redaction |-> "replace",
                                    complianceProtected |-> TRUE])]}}

\* the default catalog alone, each of its attributes mapped
DefaultCatalogConfigs ==
    {teamConfig(mapping(b, e)) :
     b \in DOMAIN DEFAULT_ATTRIBUTES, e \in {undefined, "CV-01"}}

CollectionNames ==
    {"team", "unknown-collection"}

-----------------------------------------------------------------------------
(* The build script: create the context, then transform an entry or ask   *)
(* for the visibility of an attribute.                                    *)

InputsOk ==
    /\ level \in PrivacyLevel
    /\ data \in Records
    /\ \/ config \in CustomAttributeConfigs /\ collectionName = "team"
       \/ config \in MappingConfigs /\ collectionName \in CollectionNames
       \/ config \in DefaultCatalogConfigs /\ collectionName = "team"

Init ==
    /\ InputsOk
    /\ ctx = undefined
    /\ result = undefined
    /\ visibility = undefined
    /\ console = <<>>
    /\ pc = "start"
    /\ env = <<>>
    /\ fallback = <<>>
    /\ reads = <<>>
    /\ resolved = <<>>
    /\ entries = <<>>
    /\ results = <<>>
    /\ summary = <<>>
    /\ levelArgument = <<>>
    /\ call = NoCall

CreateContext ==
    /\ pc = "start"
    /\ ctx' = createContext(config, level)
    /\ pc' = "ready"
    /\ UNCHANGED <<config, level, collectionName, data, result, visibility, console>>
    /\ UNCHANGED build
    /\ UNCHANGED helpers

TransformEntry ==
    /\ pc = "ready"
    /\ LET r == transformEntry(collectionName, data, ctx)
       IN  /\ result' = [data |-> r.data, fields |-> r.fields,
                         hiddenFields |-> r.hiddenFields, warnings |-> r.warnings]
           /\ console' = console \o r.console
    /\ pc' = "transformed"
    /\ UNCHANGED <<config, level, collectionName, data, ctx, visibility>>
    /\ UNCHANGED build
    /\ UNCHANGED helpers

\* the attribute ids the build script asks about
QueryIds ==
    {config.collections["team"].fields[f] : f \in DOMAIN config.collections["team"].fields}
        \cup {"UNKNOWN-99"}

IsAttributeVisible(attributeId) ==
    /\ pc = "ready"
    /\ visibility' =
          [attributeId |-> attributeId, level |-> ctx.currentLevel,
           visible |-> isAttributeVisible(attributeId, ctx.currentLevel,
                                          ctx.config.attributes)]
    /\ pc' = "queried"
    /\ UNCHANGED <<config, level, collectionName, data, ctx, result, console>>
    /\ UNCHANGED build
    /\ UNCHANGED helpers

Next ==
    \/ CreateContext
    \/ TransformEntry
    \/ \E attributeId \in QueryIds : IsAttributeVisible(attributeId)

Spec ==
    Init /\ [][Next]_vars

-----------------------------------------------------------------------------
(* The configuration reader: resolveConfig and readPrivacyLevel called    *)
(* in any order, under every value of the environment variable.           *)

\* the characters of the environment texts
EnvAlphabet ==
    {"0", "3", "4", "5", "-", "+", " ", "a", "."}

MaxEnvLen ==
    2

\* process.env.PRIVACY_LEVEL: unset, or a text (the empty text included)
EnvValues ==
    {<<>>} \cup {<<text>> : text \in UNION {[1..n -> EnvAlphabet] : n \in 0..MaxEnvLen}}

\* readPrivacyLevel() and readPrivacyLevel(fallback)
FallbackArguments ==
    {<<>>} \cup {<<n>> : n \in PrivacyLevel}

\* operator level lists: none, one level only, two definitions of one level
LevelOverrides ==
    {<<>>,
     <<[level |-> 3, name |-> "Open", description |-> "Open house"]>>,
     <<[level |-> 0, name |-> "Lockdown", description |-> "Nothing shown"],
       [level |-> 0, name |-> "Shadow", description |-> "Shadowed"],
       [level |-> 4, name |-> "Open", description |-> "Open house"]>>}

\* operator attributes: overrides of default ids that set fewer properties
\* than the default entry, and an id the defaults do not have
AttributeOverrides ==
    {emptyObject,
     "ID-01" :> [name |-> "Full Name", category |-> "identity", risk |-> "high",
                 threshold |-> 3],
     "OR-02" :> [name |-> "Board Membership", category |-> "organizational",
                 risk |-> "medium", threshold |-> 1],
     "X-01" :> [name |-> "Custom", category |-> "identity", risk |-> "high",
                threshold |-> 2, redaction |-> "omit"],
     ("CV-01" :> [name |-> "Email Address", category |-> "contact",
                  risk |-> "very-high", threshold |-> 4, redaction |-> "omit"])
        @@ ("X-01" :> [name |-> "Custom", category |-> "identity", risk |-> "high",
                       threshold |-> 2, complianceProtected |-> TRUE])}

OverrideConfigs ==
    {teamConfig(mapping("ID-04", "CV-01"))}
    \cup {teamConfig(mapping("ID-01", "CV-01")) @@ [attributes |-> a] :
           a \in AttributeOverrides}
    \cup {teamConfig(mapping("OR-02", undefined)) @@ [levels |-> l] :
           l \in LevelOverrides}

\* calls of one function a build makes
MaxCalls ==
    2

\* the operator configs are resolved under an unset, an empty, an invalid
\* and a valid environment text; every environment text is read with every
\* fallback under one config
InitConfig ==
    /\ \/ /\ config \in OverrideConfigs
          /\ env \in {<<>>, << <<>> >>, << <<"5">> >>, << <<"3">> >>}
          /\ fallback = <<>>
       \/ /\ config = teamConfig(mapping("ID-04", "CV-01"))
          /\ env \in EnvValues
          /\ fallback \in FallbackArguments
    /\ level = MaxLevel
    /\ collectionName = "team"
    /\ data = <<>>
    /\ ctx = undefined
    /\ result = undefined
    /\ visibility = undefined
    /\ console = <<>>
    /\ pc = "start"
    /\ reads = <<>>
    /\ resolved = <<>>
    /\ entries = <<>>
    /\ results = <<>>
    /\ summary = <<>>
    /\ levelArgument = <<>>
    /\ call = NoCall

ResolveConfig ==
    /\ Len(resolved) < MaxCalls
    /\ resolved' = Append(resolved, resolveConfig(config))
    /\ UNCHANGED <<config, level, collectionName, data, ctx, result, visibility,
                   console, pc, env, fallback, reads, entries, results, summary>>
    /\ UNCHANGED helpers

ReadPrivacyLevel ==
    /\ Len(reads) < MaxCalls
    /\ LET r == readPrivacyLevel(fallback, env)
       IN  /\ reads' = Append(reads, r.returned)
           /\ console' = console \o r.console
    /\ UNCHANGED <<config, level, collectionName, data, ctx, result, visibility,
                   pc, env, fallback, resolved, entries, results, summary>>
    /\ UNCHANGED helpers

NextConfig ==
    \/ ResolveConfig
    \/ ReadPrivacyLevel

SpecConfig ==
    InitConfig /\ [][NextConfig]_vars

-----------------------------------------------------------------------------
(* The site build: create the context, transform the collections of the   *)
(* site one by one into the results Map, and print the summary.           *)

\* the most entries a collection has
MaxEntries ==
    2

\* the entries the collections are made of
SiteRecords ==
    {<<[field |-> "bio", value |-> "Jane has 15 years of experience."],
       [field |-> "email", value |-> "jane@example.org"]>>,
     <<[field |-> "slug", value |-> "jane-smith"],
       [field |-> "email", value |-> "jane@example.org"]>>}

Collections ==
    UNION {[1..n -> SiteRecords] : n \in 0..MaxEntries}

\* the site: a team and a posts collection
SiteEntries ==
    {<<[collection |-> "team", entries |-> t],
       [collection |-> "posts", entries |-> p]>> : t, p \in Collections}

\* team maps bio to a compliance-protected attribute and email to a
\* replaced one, posts maps bio only; with and without an operator list of
\* level definitions
SiteConfigs ==
    LET collections ==
            [collections |->
                ("team" :> [fields |-> mapping("OR-02", "CV-01")])
             @@ ("posts" :> [fields |-> mapping("ID-04", undefined)])]
    IN  {collections} \cup {collections @@ [levels |-> l] : l \in LevelOverrides}

\* what the Map holds before the collections of the site are transformed:
\* nothing, or the results of a collection transformed elsewhere whose one
\* entry carries a warning and no hidden field
CarriedResults ==
    {<<>>,
     <<[collection |-> "archive",
        results    |-> <<[data         |-> <<[field |-> "slug", value |-> "jane-smith"]>>,
                          fields       |-> <<[field |-> "slug", attributeId |-> "",
                                              visible |-> TRUE, value |-> "jane-smith"]>>,
                          hiddenFields |-> <<>>,
                          warnings     |-> <<[template |-> "Kept for the annual report."]>>]>>]>>}

InitBuild ==
    /\ config \in SiteConfigs
    /\ level \in PrivacyLevel
    /\ entries \in SiteEntries
    /\ results \in CarriedResults
    /\ collectionName = "team"
    /\ data = <<>>
    /\ ctx = undefined
    /\ result = undefined
    /\ visibility = undefined
    /\ console = <<>>
    /\ pc = "start"
    /\ env = <<>>
    /\ fallback = <<>>
    /\ reads = <<>>
    /\ resolved = <<>>
    /\ summary = <<>>
    /\ levelArgument = <<>>
    /\ call = NoCall

\* the collections of the site that are not in the Map yet
pending ==
    {k \in DOMAIN entries :
        \A j \in DOMAIN results : results[j].collection # entries[k].collection}

\* the next collection of the site is transformed and set in the Map
TransformCollection ==
    /\ pc = "ready"
    /\ pending # {}
    /\ LET k == CHOOSE i \in pending : \A j \in pending : i <= j
           r == transformCollection(entries[k].collection, entries[k].entries, ctx)
       IN  /\ results' = Append(results, [collection |-> entries[k].collection,
                                           results    |-> r.results])
           /\ console' = console \o r.console
    /\ UNCHANGED <<config, level, collectionName, data, ctx, result, visibility, pc,
                   env, fallback, reads, resolved, entries, summary>>
    /\ UNCHANGED helpers

BuildSummary ==
    /\ pc = "ready"
    /\ summary' = buildSummary(results, ctx)
    /\ pc' = "summarised"
    /\ UNCHANGED <<config, level, collectionName, data, ctx, result, visibility,
                   console, env, fallback, reads, resolved, entries, results>>
    /\ UNCHANGED helpers

NextBuild ==
    \/ CreateContext
    \/ TransformCollection
    \/ BuildSummary

SpecBuild ==
    InitBuild /\ [][NextBuild]_vars

-----------------------------------------------------------------------------
(* A template: one call of createContext or of a helper, with or without  *)
(* the level argument, under a set or unset environment variable.         *)

LevelArguments ==
    {<<>>} \cup {<<n>> : n \in PrivacyLevel}

\* PRIVACY_LEVEL unset, empty, valid (0 and 3), out of range, not a number
TemplateEnv ==
    {<<>>, << <<>> >>, << <<"0">> >>, << <<"3">> >>, << <<"5">> >>, << <<"a">> >>}

TemplateConfigs ==
    {teamConfig(mapping("ID-04", "CV-01")),
     teamConfig(mapping("OR-02", "CV-01"))
        @@ [levels |-> <<[level |-> 3, name |-> "Open", description |-> "Open house"]>>]}

\* an entry of a content collection: its data and what else it carries
astroEntry(record) ==
    ("id" :> "jane-smith") @@ ("data" :> record)

InitTemplate ==
    /\ config \in TemplateConfigs
    /\ levelArgument \in LevelArguments
    /\ env \in TemplateEnv
    /\ collectionName \in CollectionNames
    /\ data \in SiteRecords
    /\ entries \in Collections
    /\ level = MaxLevel
    /\ ctx = undefined
    /\ result = undefined
    /\ visibility = undefined
    /\ console = <<>>
    /\ pc = "start"
    /\ fallback = <<>>
    /\ reads = <<>>
    /\ resolved = <<>>
    /\ results = <<>>
    /\ summary = <<>>
    /\ call = NoCall

\* what a call leaves behind: its name, the field it asked about (if any),
\* its value and the context it used
Called(name, fieldName, r) ==
    /\ pc = "start"
    /\ call' = [name |-> name, fieldName |-> fieldName,
                returned |-> r.returned, ctx |-> r.ctx]
    /\ console' = console \o r.console
    /\ pc' = "called"
    /\ UNCHANGED <<config, level, collectionName, data, ctx, result, visibility,
                   env, fallback, reads, resolved, entries, results, summary,
                   levelArgument>>

CreateContextCall ==
    LET c == contextFor(config, levelArgument, env)
    IN  Called("createContext", undefined, [returned |-> c.ctx, console |-> c.console, ctx |-> c.ctx])

FilterEntry ==
    Called("filterEntry", undefined,
           filterEntry(collectionName, astroEntry(data), config, levelArgument, env))

FilterCollection ==
    Called("filterCollection", undefined,
           filterCollection(collectionName,
                            [i \in 1..Len(entries) |-> astroEntry(entries[i])],
                            config, levelArgument, env))

ShouldShow(fieldName) ==
    Called("shouldShow", fieldName, shouldShow(collectionName, fieldName, config, levelArgument, env))

GetPrivacyStatus ==
    Called("getPrivacyStatus", undefined, getPrivacyStatus(config, levelArgument, env))

NextTemplate ==
    \/ CreateContextCall
    \/ FilterEntry
    \/ FilterCollection
    \/ \E fieldName \in FieldNames : ShouldShow(fieldName)
    \/ GetPrivacyStatus

SpecTemplate ==
    InitTemplate /\ [][NextTemplate]_vars

-----------------------------------------------------------------------------
(* Vocabulary of the properties *)

Range(s) ==
    {s[i] : i \in DOMAIN s}

\* the keys of a content record
keysOf(record) ==
    {record[i].field : i \in DOMAIN record}

\* record[f], for a key f of the record
valueOf(record, f) ==
    record[CHOOSE i \in DOMAIN record : record[i].field = f].value

configured ==
    collectionName \in DOMAIN config.collections

\* the resolved catalog of the build
catalog ==
    ctx.config.attributes

\* what transformEntry returns for the inputs of this build at level l
transformedAt(l) ==
    transformEntry(collectionName, data, createContext(config, l))

\* the ids a visibility question is asked about: the whole catalog, the ids
\* the mapping names, and an id defined nowhere
AskedIds ==
    (DOMAIN catalog) \cup QueryIds

-----------------------------------------------------------------------------
(* C1: isAttributeVisible answers true for an id that is not a key of the  *)
(* catalog, and otherwise exactly level >= threshold of the attribute, at  *)
(* every level 0..4; it always answers with a boolean.                     *)
C1_VisibilityRule ==
    /\ pc = "ready" =>
          \A id \in AskedIds, l \in PrivacyLevel :
             LET v == isAttributeVisible(id, l, catalog)
             IN  /\ v \in BOOLEAN
                 /\ id \notin DOMAIN catalog => v
                 /\ id \in DOMAIN catalog => (v <=> catalog[id].threshold <= l)
    /\ pc = "queried" =>
          /\ visibility.visible \in BOOLEAN
          /\ visibility.attributeId \notin DOMAIN catalog => visibility.visible
          /\ visibility.attributeId \in DOMAIN catalog =>
                (visibility.visible <=>
                    catalog[visibility.attributeId].threshold <= visibility.level)

\* an unknown id was asked about at level 0 and answered visible
C1_Witness ==
    /\ pc = "queried"
    /\ visibility.attributeId \notin DOMAIN catalog
    /\ visibility.level = 0
    /\ visibility.visible

(* C2: visibility is monotonic in the level: an attribute visible at L1 is *)
(* visible at every L2 > L1, and the fields transformEntry hides at a      *)
(* higher level are among those it hides at a lower level.                 *)
C2_Monotonic ==
    /\ pc = "ready" =>
          \A id \in AskedIds, l1, l2 \in PrivacyLevel :
             (l1 < l2 /\ isAttributeVisible(id, l1, catalog))
                => isAttributeVisible(id, l2, catalog)
    /\ pc = "transformed" =>
          \A l \in PrivacyLevel :
             /\ l > level => Range(transformedAt(l).hiddenFields)
                                \subseteq Range(result.hiddenFields)
             /\ l < level => Range(result.hiddenFields)
                                \subseteq Range(transformedAt(l).hiddenFields)

\* a record with a hidden field that a higher level discloses
C2_Witness ==
    /\ pc = "transformed"
    /\ result.hiddenFields # <<>>
    /\ \E l \in PrivacyLevel :
          /\ l > level
          /\ Range(transformedAt(l).hiddenFields) # Range(result.hiddenFields)

\* the field mapping of the collection of this build (when configured)
fieldMapping ==
    config.collections[collectionName].fields

\* the attribute definition the mapping of field f resolves to
attributeOf(f) ==
    catalog[fieldMapping[f]]

\* field f is mapped to an attribute of the resolved catalog whose threshold
\* is above the level of the build
mappedAboveLevel(f) ==
    /\ configured
    /\ f \in DOMAIN fieldMapping
    /\ fieldMapping[f] \in DOMAIN catalog
    /\ attributeOf(f).threshold > level

\* the attribute of a hidden field f asks for replacement
replaces(f) ==
    /\ "redaction" \in DOMAIN attributeOf(f)
    /\ attributeOf(f).redaction = "replace"

(* C3 as stated: the keys of the filtered record and hiddenFields are      *)
(* disjoint and their union is the set of keys of the input record.        *)
C3_DisjointCover ==
    pc = "transformed" =>
       /\ keysOf(result.data) \cap Range(result.hiddenFields) = {}
       /\ keysOf(result.data) \cup Range(result.hiddenFields) = keysOf(data)

(* C3 amended: the keys of the filtered record together with hiddenFields  *)
(* are exactly the keys of the input record (none is in neither); a field  *)
(* is in both exactly when it is hidden by replacement, so the union is    *)
(* disjoint only over visible and omitted fields.                          *)
C3_Cover ==
    pc = "transformed" =>
       /\ keysOf(result.data) \cup Range(result.hiddenFields) = keysOf(data)
       /\ keysOf(result.data) \cap Range(result.hiddenFields)
             = {f \in Range(result.hiddenFields) : replaces(f)}

\* one field omitted (in hiddenFields only), one replaced (in both)
C3_Witness ==
    /\ pc = "transformed"
    /\ \E f, g \in Range(result.hiddenFields) :
          /\ f \in keysOf(result.data)
          /\ g \notin keysOf(result.data)

(* C4: a hidden field whose attribute has strategy omit, or none, has no   *)
(* key in the filtered record and its FieldResult has value undefined and  *)
(* redactionApplied omit; with strategy replace its key is present with    *)
(* the attribute's redactedValue, or with "[<name> hidden]" when none is   *)
(* configured, and its FieldResult has redactionApplied replace.           *)
C4_Redaction ==
    pc = "transformed" =>
       \A i \in DOMAIN data :
          LET f == data[i].field
          IN  f \in Range(result.hiddenFields) =>
                 IF replaces(f)
                 THEN /\ f \in keysOf(result.data)
                      /\ valueOf(result.data, f) =
                            (IF "redactedValue" \in DOMAIN attributeOf(f)
                             THEN attributeOf(f).redactedValue
                             ELSE hiddenText(attributeOf(f).name))
                      /\ result.fields[i].redactionApplied = "replace"
                 ELSE /\ f \notin keysOf(result.data)
                      /\ result.fields[i].value = undefined
                      /\ result.fields[i].redactionApplied = "omit"

\* a field replaced by the generated text, and one replaced by an empty
\* redactedValue
C4_Witness ==
    /\ pc = "transformed"
    /\ \E f \in Range(result.hiddenFields) :
          /\ replaces(f)
          /\ "redactedValue" \in DOMAIN attributeOf(f)
          /\ attributeOf(f).redactedValue = ""
          /\ valueOf(result.data, f) = ""

(* C5 as stated: hiddenFields is exactly the input fields mapped to an     *)
(* attribute of the resolved catalog whose threshold is above the level,   *)
(* each once, in input order, replaced fields included.                    *)
C5_HiddenFieldsExact ==
    (pc = "transformed" /\ configured) =>
       LET hidden == SelectSeq(data, LAMBDA e : mappedAboveLevel(e.field))
       IN  result.hiddenFields = [i \in 1..Len(hidden) |-> hidden[i].field]

(* C6: for a collection without configuration the filtered record equals *)
(* the input record, there is one FieldResult per input field, visible    *)
(* and with attributeId '', and hiddenFields and warnings are empty, at   *)
(* every level.                                                           *)
C6_UnconfiguredPassThrough ==
    (pc = "transformed" /\ ~configured) =>
       /\ result.data = data
       /\ Len(result.fields) = Len(data)
       /\ \A i \in DOMAIN data :
             /\ result.fields[i].field = data[i].field
             /\ result.fields[i].attributeId = ""
             /\ result.fields[i].visible
             /\ result.fields[i].value = data[i].value
       /\ result.hiddenFields = <<>>
       /\ result.warnings = <<>>

\* at level 0, a record with a field that the team mapping would hide
C6_Witness ==
    /\ pc = "transformed"
    /\ ~configured
    /\ level = 0
    /\ Len(data) >= 2
    /\ \E f \in keysOf(data) :
          /\ f \in DOMAIN config.collections["team"].fields
          /\ config.collections["team"].fields[f] = "ID-04"
    /\ result.data = data

\* the record without its field f
without(record, f) ==
    SelectSeq(record, LAMBDA e : e.field # f)

(* C7: a field without an entry in the field mapping is copied unchanged  *)
(* into the filtered record at every level, its FieldResult is visible    *)
(* with attributeId '', it is not in hiddenFields and it causes no        *)
(* warning.                                                               *)
C7_UnmappedPassThrough ==
    (pc = "transformed" /\ configured) =>
       \A i \in DOMAIN data :
          LET f == data[i].field
          IN  f \notin DOMAIN fieldMapping =>
                 /\ f \in keysOf(result.data)
                 /\ valueOf(result.data, f) = data[i].value
                 /\ result.fields[i] = [field |-> f, attributeId |-> "",
                                        visible |-> TRUE, value |-> data[i].value]
                 /\ f \notin Range(result.hiddenFields)
                 /\ result.warnings =
                       transformEntry(collectionName, without(data, f), ctx).warnings
                 /\ \A k \in DOMAIN console : console[k].field # f

\* at level 0 the unmapped slug passes while a mapped field is hidden
C7_Witness ==
    /\ pc = "transformed"
    /\ configured
    /\ level = 0
    /\ "slug" \in keysOf(data)
    /\ "slug" \in keysOf(result.data)
    /\ result.hiddenFields # <<>>

\* field f has a mapping entry whose id is not in the resolved catalog
unresolved(f) ==
    /\ f \in DOMAIN fieldMapping
    /\ fieldMapping[f] \notin DOMAIN catalog

(* C8 as stated, for an id that is not the empty string: a field mapped   *)
(* to an id missing from the catalog passes through visible and           *)
(* unchanged, and the returned warnings hold a warning naming the field   *)
(* and the unresolved id.                                                 *)
C8_WarningInResult ==
    (pc = "transformed" /\ configured) =>
       \A i \in DOMAIN data :
          LET f == data[i].field
          IN  (unresolved(f) /\ fieldMapping[f] # "") =>
                 /\ f \in keysOf(result.data)
                 /\ valueOf(result.data, f) = data[i].value
                 /\ result.fields[i].visible
                 /\ \E k \in DOMAIN result.warnings :
                       /\ "field" \in DOMAIN result.warnings[k]
                       /\ result.warnings[k].field = f
                       /\ result.warnings[k].attributeId = fieldMapping[f]

(* C8 amended: a field mapped to an id missing from the catalog passes    *)
(* through visible and unchanged and is not hidden; when the id is not    *)
(* the empty string the FieldResult carries the id and console.warn is    *)
(* called with a message naming the field and the id; the returned        *)
(* warnings get no entry for it (they hold compliance warnings only).     *)
C8_UnknownAttribute ==
    (pc = "transformed" /\ configured) =>
       /\ \A i \in DOMAIN data :
             LET f == data[i].field
             IN  unresolved(f) =>
                    /\ f \in keysOf(result.data)
                    /\ valueOf(result.data, f) = data[i].value
                    /\ result.fields[i].visible
                    /\ result.fields[i].value = data[i].value
                    /\ f \notin Range(result.hiddenFields)
                    /\ fieldMapping[f] # "" =>
                          /\ result.fields[i].attributeId = fieldMapping[f]
                          /\ \E k \in DOMAIN console :
                                /\ console[k].field = f
                                /\ console[k].attributeId = fieldMapping[f]
       /\ \A k \in DOMAIN result.warnings :
             \E id \in DOMAIN catalog :
                result.warnings[k] = complianceMessage(catalog[id], id, level)

\* a field mapped to an undefined id passed through: console.warn was called,
\* the returned warnings are empty
C8_Witness ==
    /\ pc = "transformed"
    /\ configured
    /\ \E f \in keysOf(data) : unresolved(f) /\ fieldMapping[f] = "UNKNOWN-99"
    /\ console # <<>>
    /\ result.warnings = <<>>

\* attr.complianceProtected is set
protected(attr) ==
    "complianceProtected" \in DOMAIN attr /\ attr.complianceProtected

\* the catalog with every complianceProtected flag removed
withoutCompliance(attributes) ==
    [id \in DOMAIN attributes |->
        [k \in (DOMAIN attributes[id]) \ {"complianceProtected"} |-> attributes[id][k]]]

C10_FullDisclosure ==
    /\ \A id \in DOMAIN DEFAULT_ATTRIBUTES :
          isAttributeVisible(id, MaxLevel, DEFAULT_ATTRIBUTES)
    /\ (pc = "queried" /\ level = MaxLevel /\ catalog = DEFAULT_ATTRIBUTES)
          => visibility.visible
    /\ (pc = "transformed" /\ level = MaxLevel /\ catalog = DEFAULT_ATTRIBUTES) =>
          /\ result.data = data
          /\ result.hiddenFields = <<>>
          /\ result.warnings = <<>>

\* at level 4 a field mapped to a threshold-4 attribute of the default catalog
C10_Witness ==
    /\ pc = "transformed"
    /\ configured
    /\ level = MaxLevel
    /\ catalog = DEFAULT_ATTRIBUTES
    /\ \E f \in keysOf(data) :
          /\ f \in DOMAIN fieldMapping
          /\ fieldMapping[f] = "CV-01"
          /\ attributeOf(f).threshold = MaxLevel
    /\ result.data = data

\* the text the filtered record holds for a field hidden by replacement
substituteOf(f) ==
    IF "redactedValue" \in DOMAIN attributeOf(f)
    THEN attributeOf(f).redactedValue
    ELSE hiddenText(attributeOf(f).name)

\* field f is mapped to an attribute of the default catalog
mappedToDefault(f) ==
    /\ f \in DOMAIN fieldMapping
    /\ fieldMapping[f] \in DOMAIN DEFAULT_ATTRIBUTES

\* at level 0 no attribute with a threshold above 0 is visible, and the
\* default catalog has 20 attributes, all with a threshold of at least 1
floorOfCatalog ==
    /\ pc = "ready" =>
          \A id \in DOMAIN catalog :
             catalog[id].threshold > 0 => ~isAttributeVisible(id, 0, catalog)
    /\ Cardinality(DOMAIN DEFAULT_ATTRIBUTES) = 20
    /\ \A id \in DOMAIN DEFAULT_ATTRIBUTES : DEFAULT_ATTRIBUTES[id].threshold >= 1

(* C11 as stated: at level 0 every attribute with threshold > 0 is hidden; *)
(* the 20 default attributes have threshold >= 1, so at level 0 with the   *)
(* default catalog every input field mapped to a default attribute is in   *)
(* hiddenFields and its original value is not in the filtered record.      *)
C11_NoOriginalValue ==
    /\ floorOfCatalog
    /\ (pc = "transformed" /\ configured /\ level = 0
            /\ catalog = DEFAULT_ATTRIBUTES) =>
          \A i \in DOMAIN data :
             LET f == data[i].field
             IN  mappedToDefault(f) =>
                    /\ f \in Range(result.hiddenFields)
                    /\ f \in keysOf(result.data) =>
                          valueOf(result.data, f) # data[i].value

(* C11 amended: as above, except that for a mapped field the filtered      *)
(* record holds either no key or the substitute text of the attribute,     *)
(* which is taken from the catalog and not from the input; it differs from *)
(* the original value unless the input already held the substitute text.   *)
C11_ZeroDisclosureFloor ==
    /\ floorOfCatalog
    /\ (pc = "transformed" /\ configured /\ level = 0
            /\ catalog = DEFAULT_ATTRIBUTES) =>
          \A i \in DOMAIN data :
             LET f == data[i].field
             IN  mappedToDefault(f) =>
                    /\ f \in Range(result.hiddenFields)
                    /\ ~result.fields[i].visible
                    /\ f \in keysOf(result.data) =>
                          /\ replaces(f)
                          /\ valueOf(result.data, f) = substituteOf(f)
                          /\ data[i].value # substituteOf(f) =>
                                valueOf(result.data, f) # data[i].value

\* level 0, default catalog: the e-mail address is replaced, the biography
\* omitted, the unmapped slug still there
C11_Witness ==
    /\ pc = "transformed"
    /\ configured
    /\ level = 0
    /\ catalog = DEFAULT_ATTRIBUTES
    /\ \E i \in DOMAIN data :
          /\ data[i] = [field |-> "email", value |-> "jane@example.org"]
          /\ mappedToDefault("email")
          /\ valueOf(result.data, "email") = "Contact the organization"
    /\ Len(result.hiddenFields) = Len(data)

(* C12: a field hidden at two levels has the same outcome at both: the    *)
(* same presence or absence of its key in the filtered record, the same   *)
(* substitute and the same FieldResult (redactionApplied included).       *)
C12_RedactionDeterminism ==
    (pc = "transformed" /\ configured) =>
       \A l \in PrivacyLevel, i \in DOMAIN data :
          LET f     == data[i].field
              other == transformedAt(l)
          IN  (f \in Range(result.hiddenFields) /\ f \in Range(other.hiddenFields)) =>
                 /\ f \in keysOf(result.data) <=> f \in keysOf(other.data)
                 /\ f \in keysOf(result.data) =>
                       valueOf(result.data, f) = valueOf(other.data, f)
                 /\ result.fields[i] = other.fields[i]

\* a field replaced at level 0 and at a higher level at which it is still hidden
C12_Witness ==
    /\ pc = "transformed"
    /\ configured
    /\ level = 0
    /\ \E f \in Range(result.hiddenFields), l \in 1..MaxLevel :
          /\ f \in Range(transformedAt(l).hiddenFields)
          /\ replaces(f)
          /\ f \in keysOf(result.data)

-----------------------------------------------------------------------------
(* resolveConfig *)

\* the attributes the operator supplies ({} when the key is absent)
supplied ==
    IF "attributes" \in DOMAIN config THEN config.attributes ELSE emptyObject

\* C13: the resolved catalog is the 20 default entries, where every id the
\* operator supplies carries exactly the operator's definition (no property
\* of the default entry survives), every other default id keeps its
\* default definition, and operator ids the defaults lack are added.
C13_WholesaleOverride ==
    /\ Cardinality(DOMAIN DEFAULT_ATTRIBUTES) = 20
    /\ \A k \in DOMAIN resolved :
          LET attributes == resolved[k].attributes
          IN  /\ DOMAIN attributes = (DOMAIN DEFAULT_ATTRIBUTES) \cup (DOMAIN supplied)
              /\ \A id \in DOMAIN supplied :
                    /\ DOMAIN attributes[id] = DOMAIN supplied[id]
                    /\ attributes[id] = supplied[id]
              /\ \A id \in (DOMAIN DEFAULT_ATTRIBUTES) \ (DOMAIN supplied) :
                    attributes[id] = DEFAULT_ATTRIBUTES[id]

\* an override of CV-01 without redactedValue and a new id X-01 resolved
C13_Witness ==
    /\ resolved # <<>>
    /\ {"CV-01", "X-01"} \subseteq DOMAIN supplied
    /\ "redactedValue" \in DOMAIN DEFAULT_ATTRIBUTES["CV-01"]
    /\ "redactedValue" \notin DOMAIN resolved[1].attributes["CV-01"]
    /\ resolved[1].attributes["X-01"].complianceProtected
    /\ resolved[1].attributes["ID-01"] = DEFAULT_ATTRIBUTES["ID-01"]

\* C14: the resolved level definitions are the operator's list when one is
\* given and otherwise the 5 standard definitions, one per level 0..4; the
\* collection configs are the operator's, unmodified; and every call with
\* this config returns the same resolved config, whatever the environment
\* variable holds and whatever was called before.
C14_LevelsCollectionsDeterminism ==
    /\ Len(DEFAULT_PRIVACY_LEVELS) = 5
    /\ \A l \in PrivacyLevel :
          Cardinality({i \in DOMAIN DEFAULT_PRIVACY_LEVELS :
                          DEFAULT_PRIVACY_LEVELS[i].level = l}) = 1
    /\ \A k \in DOMAIN resolved :
          /\ resolved[k].levels = IF "levels" \in DOMAIN config
                                  THEN config.levels
                                  ELSE DEFAULT_PRIVACY_LEVELS
          /\ resolved[k].collections = config.collections
          /\ DOMAIN resolved[k] = {"levels", "attributes", "collections"}
          /\ resolved[k] = resolved[1]

\* two calls around a read of an invalid environment text, with an operator
\* level list that is not the standard one
C14_Witness ==
    /\ Len(resolved) = 2
    /\ "levels" \in DOMAIN config
    /\ Len(config.levels) = 1
    /\ resolved[2].levels = config.levels
    /\ env = << <<"5">> >>
    /\ reads # <<>>
    /\ console # <<>>

-----------------------------------------------------------------------------
(* readPrivacyLevel *)

\* the fallback a call of readPrivacyLevel works with
fallbackValue ==
    IF fallback = <<>> THEN DefaultFallback ELSE fallback[1]

\* C15: whatever the environment text (unset, empty, non-numeric, negative,
\* above 4, valid) and whatever fallback in 0..4, every value returned by
\* readPrivacyLevel is an integer in 0..4, and the call always completes.
C15_LevelInRange ==
    /\ \A k \in DOMAIN reads : reads[k] \in PrivacyLevel
    /\ Len(reads) < MaxCalls => ENABLED ReadPrivacyLevel

\* a negative and an above-range text were answered with the fallback
C15_Witness ==
    /\ reads # <<>>
    /\ env \in {<< <<"-", "3">> >>, << <<"5">> >>, << <<"a">> >>}
    /\ fallback = <<0>>
    /\ reads[1] = 0

\* the text is an optional sign followed by decimal digits and nothing else
wholeInteger(text) ==
    LET unsigned == IF text # <<>> /\ Head(text) \in {"+", "-"} THEN Tail(text) ELSE text
    IN  /\ unsigned # <<>>
        /\ \A i \in DOMAIN unsigned : unsigned[i] \in DOMAIN DigitValue

\* the number a wholly-integer text denotes
integerOf(text) ==
    IF Head(text) = "-" THEN 0 - mathInt(Tail(text))
    ELSE IF Head(text) = "+" THEN mathInt(Tail(text))
    ELSE mathInt(text)

\* C16: readPrivacyLevel returns the level the text denotes exactly when the
\* text is wholly a decimal integer in 0..4; for every other non-empty text
\* it returns the fallback and logs a warning; unset, it returns the
\* fallback, which is 4 when the caller gives none.
C16_StrictValidation ==
    /\ DefaultFallback = 4
    /\ \A k \in DOMAIN reads :
          IF env = <<>>
          THEN reads[k] = fallbackValue
          ELSE IF wholeInteger(env[1]) /\ integerOf(env[1]) \in PrivacyLevel
               THEN reads[k] = integerOf(env[1])
               ELSE env[1] # <<>> =>
                      /\ reads[k] = fallbackValue
                      /\ \E i \in DOMAIN console :
                            console[i] = invalidLevelMessage(env[1], fallbackValue)

-----------------------------------------------------------------------------
(* transformCollection *)

\* the TransformResult among what the model of transformEntry returns
asResult(r) ==
    [data |-> r.data, fields |-> r.fields,
     hiddenFields |-> r.hiddenFields, warnings |-> r.warnings]

reversed(s) ==
    [i \in 1..Len(s) |-> s[Len(s) + 1 - i]]

\* C17: the results of a transformed collection are as many as its entries,
\* the i-th being transformEntry of the i-th entry; each is what the entry
\* gives when transformed alone, and transforming the entries in the
\* opposite order gives the same results in the opposite order.
C17_EntryWise ==
    \A k \in DOMAIN entries : \A j \in DOMAIN results :
        results[j].collection = entries[k].collection =>
            LET name    == entries[k].collection
                records == entries[k].entries
                out     == results[j].results
            IN  /\ Len(out) = Len(records)
                /\ \A i \in DOMAIN records :
                      /\ out[i] = asResult(transformEntry(name, records[i], ctx))
                      /\ transformCollection(name, <<records[i]>>, ctx).results = <<out[i]>>
                /\ transformCollection(name, reversed(records), ctx).results = reversed(out)

\* the team collection of two different entries, both with hidden fields,
\* has been transformed
C17_Witness ==
    \E j \in DOMAIN results :
        /\ results[j].collection = "team"
        /\ Len(results[j].results) = 2
        /\ results[j].results[1] # results[j].results[2]
        /\ results[j].results[1].hiddenFields # <<>>
        /\ results[j].results[2].hiddenFields # <<>>

-----------------------------------------------------------------------------
(* buildSummary *)

isCollectionLine(line) ==
    "collection" \in DOMAIN line

isHiddenLine(line) ==
    "hiddenFieldNames" \in DOMAIN line

isWarningLine(line) ==
    "w" \in DOMAIN line

isTotalLine(line) ==
    "totalHidden" \in DOMAIN line

\* the occurrences of hidden fields among the entries of a collection
hiddenOccurrences(transformResults) ==
    UNION {{<<i, j>> : j \in DOMAIN transformResults[i].hiddenFields} :
           i \in DOMAIN transformResults}

\* the occurrences of warnings among the entries of a collection
warningOccurrences(transformResults) ==
    UNION {{<<i, j>> : j \in DOMAIN transformResults[i].warnings} :
           i \in DOMAIN transformResults}

hiddenNames(transformResults) ==
    UNION {Range(transformResults[i].hiddenFields) : i \in DOMAIN transformResults}

\* the collections of the Map with at least one hidden field, in order
listed ==
    SelectSeq(results, LAMBDA c : hiddenOccurrences(c.results) # {})

\* C18: the summary has a collection line exactly for the collections with
\* a hidden field, in Map order, with the collection's number of entries
\* and of hidden fields, followed by the line of its distinct hidden field
\* names; the total line gives the hidden fields and the warnings of all
\* the collections of the Map, listed or not.
C18_CollectionLinesAndTotals ==
    pc = "summarised" =>
        LET collectionLinesOf == SelectSeq(summary, isCollectionLine)
            totals            == SelectSeq(summary, isTotalLine)
        IN  /\ Len(collectionLinesOf) = Len(listed)
            /\ Len(SelectSeq(summary, isHiddenLine)) = Len(listed)
            /\ \A i \in DOMAIN listed :
                  /\ collectionLinesOf[i].collection = listed[i].collection
                  /\ collectionLinesOf[i].entries = Len(listed[i].results)
                  /\ collectionLinesOf[i].hidden =
                        Cardinality(hiddenOccurrences(listed[i].results))
            /\ \A n \in DOMAIN summary :
                  isCollectionLine(summary[n]) =>
                      /\ n + 1 \in DOMAIN summary
                      /\ isHiddenLine(summary[n + 1])
                      /\ \E i \in DOMAIN listed :
                            /\ listed[i].collection = summary[n].collection
                            /\ Range(summary[n + 1].hiddenFieldNames) =
                                  hiddenNames(listed[i].results)
                            /\ Len(summary[n + 1].hiddenFieldNames) =
                                  Cardinality(hiddenNames(listed[i].results))
            /\ Len(totals) = 1
            /\ totals[1].totalHidden =
                  Cardinality(UNION {{<<k>> \o o : o \in hiddenOccurrences(results[k].results)} :
                                     k \in DOMAIN results})
            /\ totals[1].totalWarnings =
                  Cardinality(UNION {{<<k>> \o o : o \in warningOccurrences(results[k].results)} :
                                     k \in DOMAIN results})

\* a summary over a collection without line that has a warning, and a listed
\* collection whose two entries hide the same field
C18_Witness ==
    /\ pc = "summarised"
    /\ Len(results) = 3
    /\ Len(listed) = 1
    /\ Len(listed[1].results) = 2
    /\ Cardinality(hiddenOccurrences(listed[1].results)) >
          Cardinality(hiddenNames(listed[1].results))
    /\ \E k \in DOMAIN results :
          /\ hiddenOccurrences(results[k].results) = {}
          /\ warningOccurrences(results[k].results) # {}

\* every warning of the Map: collection by collection, entry by entry
everyWarning ==
    flat([k \in DOMAIN results |->
            flat([i \in DOMAIN results[k].results |-> results[k].results[i].warnings])])

\* C19: the warning lines of the summary carry, one line per occurrence and
\* unchanged, the warnings of the Map in collection order, then entry
\* order, then warning order, whether or not the collection has a hidden
\* field; they are as many as the warnings the total line counts.
C19_WarningsVerbatim ==
    pc = "summarised" =>
        LET warningLines == SelectSeq(summary, isWarningLine)
            totals       == SelectSeq(summary, isTotalLine)
        IN  /\ Len(warningLines) = Len(everyWarning)
            /\ \A i \in DOMAIN warningLines : warningLines[i].w = everyWarning[i]
            /\ Len(warningLines) = totals[1].totalWarnings

\* a summary with the warning of a collection without hidden field, and
\* with the same warning of two entries on two lines
C19_Witness ==
    /\ pc = "summarised"
    /\ \E k \in DOMAIN results :
          /\ hiddenOccurrences(results[k].results) = {}
          /\ \E n \in DOMAIN summary :
                /\ isWarningLine(summary[n])
                /\ summary[n].w = results[k].results[1].warnings[1]
    /\ \E m, n \in DOMAIN summary :
          /\ m < n
          /\ isWarningLine(summary[m])
          /\ isWarningLine(summary[n])
          /\ summary[m] = summary[n]

\* the definitions of the current level among the resolved level definitions
currentDefinitions ==
    {i \in DOMAIN ctx.config.levels : ctx.config.levels[i].level = ctx.currentLevel}

\* C20: the level line of the summary carries the current level and, with
\* the description line, the name and description of a level definition
\* whose level is the current level; when the resolved level definitions
\* have none for the current level the name is "Unknown", and the summary
\* is always produced.
C20_LevelLine ==
    /\ pc = "ready" => ENABLED BuildSummary
    /\ pc = "summarised" =>
          /\ summary[2].currentLevel = ctx.currentLevel
          /\ IF currentDefinitions = {}
             THEN summary[2].name = "Unknown"
             ELSE \E i \in currentDefinitions :
                    /\ summary[2].name = ctx.config.levels[i].name
                    /\ summary[3].description = ctx.config.levels[i].description

\* a summary at a level the operator's list of level definitions lacks
C20_Witness ==
    /\ pc = "summarised"
    /\ "levels" \in DOMAIN config
    /\ config.levels # <<>>
    /\ currentDefinitions = {}
    /\ summary[2].name = "Unknown"
    /\ summary[2].currentLevel = ctx.currentLevel

-----------------------------------------------------------------------------
(* The default catalog at level 3 *)

\* C21: with the default catalog, an attribute of category 'contact' is
\* visible at level 4 only; at level 3 (and below) every one of CV-01..CV-05
\* is hidden.
C21_NoContactBelowFour ==
    /\ {id \in DOMAIN DEFAULT_ATTRIBUTES : DEFAULT_ATTRIBUTES[id].category = "contact"}
          = {"CV-01", "CV-02", "CV-03", "CV-04", "CV-05"}
    /\ (/\ pc = "queried"
        /\ catalog = DEFAULT_ATTRIBUTES
        /\ visibility.attributeId \in DOMAIN DEFAULT_ATTRIBUTES
        /\ DEFAULT_ATTRIBUTES[visibility.attributeId].category = "contact")
          => (visibility.visible => visibility.level = MaxLevel)

-----------------------------------------------------------------------------
(* The shape of a TransformResult *)

\* C22: transformEntry returns one FieldResult per field of the input
\* record, in the record's order and carrying the field's name; and the
\* keys of the filtered record are distinct keys of the input in the same
\* relative order, with or without a config for the collection.
C22_OrderPreserved ==
    pc = "transformed" =>
       /\ Len(result.fields) = Len(data)
       /\ \A i \in DOMAIN data : result.fields[i].field = data[i].field
       /\ \A a, b \in DOMAIN result.data :
             a < b => \E i, j \in DOMAIN data :
                         /\ i < j
                         /\ data[i].field = result.data[a].field
                         /\ data[j].field = result.data[b].field

\* entries of two fields, both kept: one configured entry whose first field
\* is unmapped and whose second is mapped and visible, and one configured
\* entry whose first field is replaced
C22_Witness ==
    /\ pc = "transformed"
    /\ configured
    /\ Len(data) = 2
    /\ Len(result.data) = 2
    /\ \/ /\ result.fields[1].attributeId = ""
          /\ result.fields[2].attributeId \in DOMAIN catalog
          /\ result.fields[2].visible
       \/ /\ ~result.fields[1].visible
          /\ result.fields[2].visible

\* C25: in a TransformResult a field is in hiddenFields exactly when its
\* FieldResult is not visible, exactly when the FieldResult names the
\* redaction applied; a visible FieldResult carries the input value, and
\* an attributeId other than '' only as the id the field is mapped to; a
\* key is in the filtered record exactly when its FieldResult is visible
\* or replaced, and then with the value of the FieldResult.
C25_AuditTrailConsistent ==
    pc = "transformed" =>
       \A i \in DOMAIN data :
          LET f  == data[i].field
              fr == result.fields[i]
          IN  /\ (f \in Range(result.hiddenFields)) <=> ~fr.visible
              /\ ~fr.visible <=> ("redactionApplied" \in DOMAIN fr)
              /\ fr.visible =>
                    /\ fr.value = data[i].value
                    /\ fr.attributeId # "" =>
                          /\ configured
                          /\ f \in DOMAIN fieldMapping
                          /\ fieldMapping[f] = fr.attributeId
              /\ (f \in keysOf(result.data)) <=>
                    (fr.visible \/ (~fr.visible /\ fr.redactionApplied = "replace"))
              /\ f \in keysOf(result.data) => valueOf(result.data, f) = fr.value

\* an entry with a replaced field and an omitted field, and an entry with
\* a replaced field and a mapped visible one
C25_Witness ==
    /\ pc = "transformed"
    /\ Len(data) = 2
    /\ \E i, j \in DOMAIN data :
          /\ ~result.fields[i].visible
          /\ result.fields[i].redactionApplied = "replace"
          /\ valueOf(result.data, data[i].field) = result.fields[i].value
          /\ \/ /\ ~result.fields[j].visible
                /\ result.fields[j].redactionApplied = "omit"
             \/ /\ result.fields[j].visible
                /\ result.fields[j].attributeId # ""

-----------------------------------------------------------------------------
(* The three visibility decisions *)

\* C23: the visible flag transformEntry records for a field equals the
\* answer of shouldShow for the collection, the field, the config and the
\* level; and for a field with an entry in the mapping of a configured
\* collection both equal isAttributeVisible of the mapped id, the level and
\* the resolved catalog.
C23_DecisionsAgree ==
    pc = "transformed" =>
       \A i \in DOMAIN data :
          LET f     == data[i].field
              shown == shouldShow(collectionName, f, config, <<level>>, env).returned
          IN  /\ result.fields[i].visible = shown
              /\ (configured /\ f \in DOMAIN fieldMapping) =>
                    /\ result.fields[i].visible =
                          isAttributeVisible(fieldMapping[f], level, catalog)
                    /\ shown = isAttributeVisible(fieldMapping[f], level, catalog)

-----------------------------------------------------------------------------
(* Hidden values do not flow into the result *)

\* the records with the fields of the record, in the same order
variantsOf(record) ==
    {r \in Records :
        /\ Len(r) = Len(record)
        /\ \A i \in DOMAIN record : r[i].field = record[i].field}

\* C24: a record that differs from the input only in the values of fields
\* mapped to an attribute whose threshold is above the level gives the same
\* TransformResult; and such a field is in the filtered record and in its
\* FieldResult with the substitute of its attribute or not at all.
C24_NoLeak ==
    pc = "transformed" =>
       /\ \A other \in variantsOf(data) :
             (\A i \in DOMAIN data :
                 other[i].value # data[i].value => mappedAboveLevel(data[i].field))
             => asResult(transformEntry(collectionName, other, ctx)) = result
       /\ \A i \in DOMAIN data :
             LET f == data[i].field
             IN  mappedAboveLevel(f) =>
                   /\ f \in keysOf(result.data) =>
                         valueOf(result.data, f) = substituteOf(f)
                   /\ result.fields[i].value \in {undefined, substituteOf(f)}

-----------------------------------------------------------------------------
(* The level argument and the environment *)

\* what transformEntry returns for a record at level l under the config
entryAt(record, l) ==
    asResult(transformEntry(collectionName, record, createContext(config, l)))

\* C26: a call of createContext, filterEntry, filterCollection, shouldShow
\* or getPrivacyStatus with a level argument L works at currentLevel = L,
\* L = 0 included, returns what the level L alone determines and logs no
\* complaint about the environment text, whatever PRIVACY_LEVEL holds;
\* without the argument it works at the level readPrivacyLevel() returns.
C26_ExplicitLevelWins ==
    call.name # "none" =>
       IF levelArgument = <<>>
       THEN call.ctx.currentLevel = readPrivacyLevel(<<>>, env).returned
       ELSE LET L == levelArgument[1]
            IN  /\ call.ctx.currentLevel = L
                /\ \A k \in DOMAIN console : "envVal" \notin DOMAIN console[k]
                /\ call.name = "createContext" =>
                      call.returned = [currentLevel |-> L, config |-> resolveConfig(config)]
                /\ call.name = "filterEntry" =>
                      /\ call.returned["_privacy"] = entryAt(data, L)
                      /\ call.returned["data"] = entryAt(data, L).data
                /\ call.name = "filterCollection" =>
                      /\ Len(call.returned) = Len(entries)
                      /\ \A i \in DOMAIN entries :
                            call.returned[i]["_privacy"] = entryAt(entries[i], L)
                /\ call.name = "shouldShow" =>
                      call.returned =
                         (\/ ~configured
                          \/ call.fieldName \notin DOMAIN fieldMapping
                          \/ L >= resolveConfig(config).attributes[
                                      fieldMapping[call.fieldName]].threshold)
                /\ call.name = "getPrivacyStatus" =>
                      /\ call.returned.level = L
                      /\ call.returned.isReduced = (L < MaxLevel)

\* filterEntry called with level 0 while PRIVACY_LEVEL is "3": the entry is
\* filtered at level 0
C26_Witness ==
    /\ call.name = "filterEntry"
    /\ levelArgument = <<0>>
    /\ env = << <<"3">> >>
    /\ configured
    /\ call.ctx.currentLevel = 0
    /\ Len(call.returned["_privacy"].hiddenFields) = 2
    /\ call.returned["id"] = "jane-smith"

====
